---- MODULE Spec2Model ----
(***************************************************************************)
(* Model of the StudyAI document pipeline:                                 *)
(*   - ContentGenerator (content_generator.py): provider registry, the     *)
(*     provider call with its fallback, the three generate_* operations    *)
(*     and their response normalisation;                                   *)
(*   - DocumentProcessor (document_processor.py): extract_text and its     *)
(*     PDF / DOCX strategies;                                              *)
(*   - the two callers: upload_document_page (app.py) and main of          *)
(*     studyai_standalone.py.                                              *)
(* Strings are sequences of tokens.  A token is a word, a whitespace       *)
(* character (" ", "\n") or, for provider responses, a JSON lexeme.        *)
(***************************************************************************)
EXTENDS Integers, Sequences, FiniteSets, TLC

VARIABLES
    \* ---- ContentGenerator ----
    gpc,                 \* position: "new", "constructed", "ready", "call",
                         \*           "returned", "done"
    creds,               \* providers whose API key is set in the environment
    initFailed,          \* credentialed providers whose client constructor raises
    available_providers, \* self.available_providers (a list)
    clients,             \* keys of self.clients
    current_provider,    \* self.current_provider
    op,                  \* the generate_* operation in progress
    text,                \* its document text argument
    fails,               \* providers whose call raises during this request
    provider,            \* argument of the running _generate_with_provider frame
    depth,               \* number of enclosing _generate_with_provider frames
    callLog,             \* providers called so far in this request, in order
    errLog,              \* providers reported through st.error, in order
    content,             \* value returned by _generate_with_provider
    raised,              \* an exception left _generate_with_provider
    result,              \* value returned by generate_*
    escaped,             \* an exception left generate_*
    \* ---- DocumentProcessor ----
    epc,                 \* position: "idle", "primary", "secondary_in_try",
                         \*           "secondary", "docx", "done"; "raw" and
                         \*           "cleaned" around a lone _clean_text call
    file,                \* the file at file_path
    use_ocr,             \* self.use_ocr
    primary,             \* how the primary strategy ended: "none" (not run),
                         \* "raise", "blank", "text"
    text_content,        \* text_content of _extract_from_pdf_advanced
    secRuns,             \* calls of _extract_from_pdf during this extract_text
    fitzOpen,            \* the PyMuPDF document is open
    source,              \* strategy whose value extract_text returned
    eout,                \* outcome of extract_text: [exc, val, err]
    \* ---- app.py upload_document_page ----
    upc,                 \* position: "idle", "extracting", "finished"
    tmp_file_path,       \* the local tmp_file_path: "None" or "tmp"
    tmp_exists,          \* the temporary file is on disk
    upload_exit,         \* how the call ended: "none", "write_error",
                         \* "extract_error", "blank", "generate_error", "success"
    checkbox_use_ocr,    \* the local use_ocr: "Extract text from images"
    \* ---- studyai_standalone.py main ----
    mpc,                 \* position: "start", "processing", "processed",
                         \*           "generated", "aborted", "exited"
    no_ocr,              \* args.no_ocr
    self_use_ocr,        \* StudyAIStandalone.use_ocr
    quiet,               \* args.quiet
    output_json,         \* args.output_json is given
    output_pdf,          \* args.output_pdf is given
    study_materials,     \* StudyAIStandalone.study_materials
    written,             \* output files written
    exit_code            \* "none", 0 or 1

gvars == <<gpc, creds, initFailed, available_providers, clients,
           current_provider, op, text, fails, provider, depth, callLog,
           errLog, content, raised, result, escaped>>

evars == <<epc, file, use_ocr, primary, text_content, secRuns, fitzOpen,
           source, eout>>

avars == <<upc, tmp_file_path, tmp_exists, upload_exit, checkbox_use_ocr>>

svars == <<mpc, no_ocr, self_use_ocr, quiet, output_json, output_pdf,
           study_materials, written, exit_code>>

vars == <<gvars, evars, avars, svars>>

(***************************************************************************)
(* Bounds                                                                  *)
(***************************************************************************)
MaxTextLen == 1
MaxRespLen == 3
RecursionLimit == 4

(***************************************************************************)
(* Generic helpers                                                         *)
(***************************************************************************)
SeqToSet(s) == { s[i] : i \in 1..Len(s) }

Contains(s, w) == \E i \in 1..Len(s) : s[i] = w

Min(a, b) == IF a < b THEN a ELSE b

SeqsUpTo(S, n) == UNION { [1..k -> S] : k \in 0..n }

\* Python slice s[:n]
Prefix(s, n) == SubSeq(s, 1, Min(Len(s), n))

(***************************************************************************)
(* ContentGenerator: provider registry                                     *)
(***************************************************************************)
Providers == {"gemini", "claude", "openai"}

InitOrder == <<"gemini", "claude", "openai">>

priority_order == <<"gemini", "claude", "openai", "local">>

\* The providers appended by the three credential blocks, in source order.
Credentialed(c, f) ==
    SelectSeq(InitOrder, LAMBDA p : p \in c /\ p \notin f)

_initialize_providers(c, f) ==
    IF Credentialed(c, f) = <<>> THEN <<"local">> ELSE Credentialed(c, f)

InitClients(c, f) == SeqToSet(Credentialed(c, f))

\* variant: the lowest-ranked available provider
_get_best_available_provider_Lowest(avail) ==
    LET hits == SelectSeq(priority_order, LAMBDA p : p \in SeqToSet(avail))
    IN  IF hits = <<>> THEN "local" ELSE hits[Len(hits)]

_get_best_available_provider(avail) ==
    LET hits == SelectSeq(priority_order, LAMBDA p : p \in SeqToSet(avail))
    IN  IF hits = <<>> THEN "local" ELSE hits[1]

\* variant: the override is taken without the membership test
ApplyOverride_Unchecked(cur, avail, ov) == IF ov # "auto" THEN ov ELSE cur

\* StudyAIStandalone.__init__: --provider override
ApplyOverride(cur, avail, ov) ==
    IF ov # "auto" /\ ov \in SeqToSet(avail) THEN ov ELSE cur

(***************************************************************************)
(* Prompts and the local template provider                                 *)
(* A prompt is the word sequence of the fixed instruction text followed by *)
(* the truncated document text.  Of the instruction text only the words    *)
(* _generate_local_content looks for are kept: the questions prompt        *)
(* contains "questions", the flash-card prompt contains "flash" and not    *)
(* "questions", the summaries prompt contains "summar" and neither of the  *)
(* other two.                                                              *)
(***************************************************************************)
Ops == {"questions", "flash", "summaries"}

\* the words document texts are drawn from: a word _generate_local_content
\* looks for, and a word it does not look for
Words == {"questions", "flash", "x"}

Texts == SeqsUpTo(Words, MaxTextLen)

QuestionTextLimit == 8000

SummaryTextLimit == 10000

PromptFor(o, t) ==
    CASE o = "questions" -> <<"study", "questions">> \o Prefix(t, QuestionTextLimit)
      [] o = "flash"     -> <<"flash", "cards">> \o Prefix(t, QuestionTextLimit)
      [] o = "summaries" -> <<"summar", "sections">> \o Prefix(t, SummaryTextLimit)

_create_template_questions ==
    <<"[", "{", "other:", "Tq1", "}", "{", "other:", "Tq2", "}", "]">>

_create_template_flashcards ==
    <<"[", "{", "other:", "Tf1", "}", "{", "other:", "Tf2", "}", "]">>

_create_template_summary == <<"{", "other:", "Ts", "}">>

_generate_local_content(prompt) ==
    IF Contains(prompt, "questions") THEN _create_template_questions
    ELSE IF Contains(prompt, "flash") THEN _create_template_flashcards
    ELSE IF Contains(prompt, "summar") THEN _create_template_summary
    ELSE <<>>

(***************************************************************************)
(* JSON over token sequences.                                              *)
(*   value  ::= scalar | "[" value* "]" | "{" (key value)* "}"             *)
(* "w" is a word of prose (or a markdown fence): it is not JSON.  A parsed *)
(* value is represented by its own token sequence.                         *)
(***************************************************************************)
Scalars == {"1", "Tq1", "Tq2", "Tf1", "Tf2", "Ts"}

Keys == {"questions:", "flashcards:", "cards:", "other:"}

\* the lexemes provider responses are drawn from
RespAlphabet == {"[", "]", "{", "}", "w"}

Responses == SeqsUpTo(RespAlphabet, MaxRespLen)

EmptyList == <<"[", "]">>

EmptyDict == <<"{", "}">>

RECURSIVE ValueEnd(_, _), ItemsEnd(_, _), MembersEnd(_, _)

\* Index just after the value that starts at s[i]; 0 when there is none.
ValueEnd(s, i) ==
    IF i > Len(s) THEN 0
    ELSE IF s[i] \in Scalars THEN i + 1
    ELSE IF s[i] = "[" THEN ItemsEnd(s, i + 1)
    ELSE IF s[i] = "{" THEN MembersEnd(s, i + 1)
    ELSE 0

ItemsEnd(s, i) ==
    IF i > Len(s) THEN 0
    ELSE IF s[i] = "]" THEN i + 1
    ELSE LET e == ValueEnd(s, i) IN IF e = 0 THEN 0 ELSE ItemsEnd(s, e)

MembersEnd(s, i) ==
    IF i > Len(s) THEN 0
    ELSE IF s[i] = "}" THEN i + 1
    ELSE IF s[i] \in Keys
         THEN LET e == ValueEnd(s, i + 1) IN IF e = 0 THEN 0 ELSE MembersEnd(s, e)
         ELSE 0

\* json.loads: ok = FALSE stands for JSONDecodeError
JsonLoads(s) ==
    IF Len(s) > 0 /\ ValueEnd(s, 1) = Len(s) + 1
    THEN [ok |-> TRUE, val |-> s]
    ELSE [ok |-> FALSE, val |-> <<>>]

IsDict(v) == Len(v) > 0 /\ v[1] = "{"

IsList(v) == Len(v) > 0 /\ v[1] = "["

RECURSIVE DictHasFrom(_, _, _), DictGetFrom(_, _, _, _)

DictHasFrom(d, i, k) ==
    IF d[i] = "}" THEN FALSE
    ELSE d[i] = k \/ DictHasFrom(d, ValueEnd(d, i + 1), k)

\* a repeated key keeps its last value, as json.loads does
DictGetFrom(d, i, k, cur) ==
    IF d[i] = "}" THEN cur
    ELSE LET e == ValueEnd(d, i + 1)
         IN  DictGetFrom(d, e, k, IF d[i] = k THEN SubSeq(d, i + 1, e - 1) ELSE cur)

DictHas(d, k) == DictHasFrom(d, 2, k)

DictGet(d, k) == DictGetFrom(d, 2, k, <<>>)

\* variant: a lazy quantifier, the match ends at the first closing token
RegexSearch_Lazy(s, open, close) ==
    LET os == { i \in 1..Len(s) : s[i] = open }
        cs == { j \in 1..Len(s) : s[j] = close }
    IN  IF os = {} THEN [found |-> FALSE, group |-> <<>>]
        ELSE LET i == CHOOSE x \in os : \A y \in os : x <= y
                 after == { j \in cs : j > i }
             IN  IF after = {} THEN [found |-> FALSE, group |-> <<>>]
                 ELSE LET j == CHOOSE x \in after : \A y \in after : x <= y
                      IN  [found |-> TRUE, group |-> SubSeq(s, i, j)]

\* re.search(open .* close, content, re.DOTALL): leftmost start, greedy end
RegexSearch(s, open, close) ==
    LET os == { i \in 1..Len(s) : s[i] = open }
        cs == { j \in 1..Len(s) : s[j] = close }
    IN  IF os = {} THEN [found |-> FALSE, group |-> <<>>]
        ELSE LET i == CHOOSE x \in os : \A y \in os : x <= y
                 after == { j \in cs : j > i }
             IN  IF after = {} THEN [found |-> FALSE, group |-> <<>>]
                 ELSE LET j == CHOOSE x \in after : \A y \in after : y <= x
                      IN  [found |-> TRUE, group |-> SubSeq(s, i, j)]

(***************************************************************************)
(* ContentGenerator: response normalisation of the three generate_*        *)
(* operations.  A body yields [exc, val]: exc = TRUE when an exception     *)
(* leaves the statements inside the operation's try block.                 *)
(***************************************************************************)
Returns(v) == [exc |-> FALSE, val |-> v]

Raises == [exc |-> TRUE, val |-> <<>>]

\* "try: json.loads(content) / except: re.search ... json.loads(group)"
\* kind: "value" (result bound), "empty" (return of the empty result),
\*       "raise" (the second json.loads raised)
ParseResponse(c, open, close) ==
    IF JsonLoads(c).ok THEN [kind |-> "value", val |-> JsonLoads(c).val]
    ELSE LET m == RegexSearch(c, open, close)
         IN  IF m.found
             THEN IF JsonLoads(m.group).ok
                  THEN [kind |-> "value", val |-> JsonLoads(m.group).val]
                  ELSE [kind |-> "raise", val |-> <<>>]
             ELSE [kind |-> "empty", val |-> <<>>]

QuestionsShape(r) ==
    IF IsDict(r) /\ DictHas(r, "questions:") THEN DictGet(r, "questions:")
    ELSE IF IsList(r) THEN r
    ELSE EmptyList

\* variant: the two alias tests in the opposite order
FlashShape_CardsFirst(r) ==
    IF IsDict(r) /\ DictHas(r, "cards:") THEN DictGet(r, "cards:")
    ELSE IF IsDict(r) /\ DictHas(r, "flashcards:") THEN DictGet(r, "flashcards:")
    ELSE IF IsList(r) THEN r
    ELSE EmptyList

FlashShape(r) ==
    IF IsDict(r) /\ DictHas(r, "flashcards:") THEN DictGet(r, "flashcards:")
    ELSE IF IsDict(r) /\ DictHas(r, "cards:") THEN DictGet(r, "cards:")
    ELSE IF IsList(r) THEN r
    ELSE EmptyList

SummaryShape(r) == IF IsDict(r) THEN r ELSE EmptyDict

EmptyFor(o) == IF o = "summaries" THEN EmptyDict ELSE EmptyList

\* the statements after "content = self._generate_with_provider(prompt)"
TryBody(o, c, exn) ==
    IF exn THEN Raises
    ELSE IF c = <<>> THEN Returns(EmptyFor(o))
    ELSE LET pr == IF o = "summaries" THEN ParseResponse(c, "{", "}")
                   ELSE ParseResponse(c, "[", "]")
         IN  CASE pr.kind = "raise" -> Raises
               [] pr.kind = "empty" -> Returns(EmptyFor(o))
               [] pr.kind = "value" ->
                    Returns(CASE o = "questions" -> QuestionsShape(pr.val)
                              [] o = "flash"     -> FlashShape(pr.val)
                              [] o = "summaries" -> SummaryShape(pr.val))

\* variant: no outer except clause
ExceptReturnEmpty_Propagate(o, body) == body

\* "except Exception as e: st.error(...); return []"
ExceptReturnEmpty(o, body) ==
    IF body.exc THEN Returns(EmptyFor(o)) ELSE body

(***************************************************************************)
(* ContentGenerator: actions                                               *)
(***************************************************************************)
NoRequest ==
    /\ op = "none" /\ text = <<>> /\ fails = {} /\ provider = "none"
    /\ depth = 0 /\ callLog = <<>> /\ errLog = <<>> /\ content = <<>>
    /\ raised = FALSE /\ result = <<>> /\ escaped = FALSE

GenIdle ==
    /\ gpc = "new"
    /\ creds = {} /\ initFailed = {}
    /\ available_providers = <<>> /\ clients = {}
    /\ current_provider = "none"
    /\ NoRequest

\* ContentGenerator.__init__ (app.py main, StudyAIStandalone.__init__)
Construct ==
    /\ gpc = "new"
    /\ \E c \in SUBSET Providers :
         \E f \in SUBSET c :
           /\ creds' = c
           /\ initFailed' = f
           /\ available_providers' = _initialize_providers(c, f)
           /\ clients' = InitClients(c, f)
           /\ current_provider' =
                _get_best_available_provider(_initialize_providers(c, f))
    /\ gpc' = "constructed"
    /\ UNCHANGED <<op, text, fails, provider, depth, callLog, errLog, content,
                   raised, result, escaped>>
    /\ UNCHANGED <<evars, avars, svars>>

\* the rest of StudyAIStandalone.__init__: the --provider override
\* (ov = "auto" when there is none, as for the generator app.py constructs)
ProviderOverride ==
    /\ gpc = "constructed"
    /\ \E ov \in Providers \cup {"local", "auto"} :
         current_provider' = ApplyOverride(current_provider, available_providers, ov)
    /\ gpc' = "ready"
    /\ UNCHANGED <<creds, initFailed, available_providers, clients, op, text,
                   fails, provider, depth, callLog, errLog, content, raised,
                   result, escaped>>
    /\ UNCHANGED <<evars, avars, svars>>

\* generate_questions_answers / generate_flash_cards / generate_summaries,
\* up to the call of _generate_with_provider(prompt).  F is the set of
\* providers whose call raises while this request runs.
StartGenerate ==
    /\ gpc = "ready"
    /\ \E o \in Ops, t \in Texts,
          F \in SUBSET (SeqToSet(available_providers) \cap Providers) :
         /\ op' = o
         /\ text' = t
         /\ fails' = F
         /\ IF available_providers = <<>>
            THEN /\ gpc' = "done"
                 /\ result' = EmptyFor(o)
                 /\ provider' = "none" /\ depth' = 0
            ELSE /\ gpc' = "call"
                 /\ result' = <<>>
                 /\ provider' = current_provider /\ depth' = 1
    /\ UNCHANGED <<creds, initFailed, available_providers, clients,
                   current_provider, callLog, errLog, content, raised, escaped>>
    /\ UNCHANGED <<evars, avars, svars>>

\* the if/elif chain of _generate_with_provider: does the try block raise?
CallRaisesFor(p) ==
    \/ p \in Providers /\ p \in clients /\ p \in fails
    \/ ~(p \in Providers /\ p \in clients) /\ p # "local"

\* generate_* after _generate_with_provider has returned c or raised:
\* parse, unwrap, and the outer except.
Normalize(c, exn) ==
    /\ content' = c
    /\ raised' = exn
    /\ LET out == ExceptReturnEmpty(op, TryBody(op, c, exn))
       IN  /\ result' = out.val
           /\ escaped' = out.exc
    /\ gpc' = "done"

\* the try block of the running _generate_with_provider frame returns;
\* the value goes back through every enclosing frame to generate_*
CallReturns ==
    /\ gpc = "call"
    /\ ~CallRaisesFor(provider)
    /\ IF provider = "local"
       THEN Normalize(_generate_local_content(PromptFor(op, text)), FALSE)
       ELSE \E r \in Responses : Normalize(r, FALSE)
    /\ callLog' = Append(callLog, provider)
    /\ UNCHANGED <<creds, initFailed, available_providers, clients,
                   current_provider, op, text, fails, provider, depth, errLog>>
    /\ UNCHANGED <<evars, avars, svars>>

\* variant: the failed provider is not removed from the candidates
remaining_providers_KeepFailed(p) == available_providers

remaining_providers(p) == SelectSeq(available_providers, LAMBDA q : q # p)

\* the try block of the running frame raises: the except handler of
\* _generate_with_provider.  A recursive call that would exceed the
\* interpreter's recursion limit raises RecursionError inside the handler,
\* which leaves every enclosing frame.
CallRaises ==
    /\ gpc = "call"
    /\ CallRaisesFor(provider)
    /\ callLog' = Append(callLog, provider)
    /\ errLog' = Append(errLog, provider)
    /\ IF remaining_providers(provider) # <<>>
       THEN IF depth < RecursionLimit
            THEN /\ provider' = remaining_providers(provider)[1]
                 /\ depth' = depth + 1
                 /\ UNCHANGED <<gpc, content, raised, result, escaped>>
            ELSE /\ Normalize(<<>>, TRUE)
                 /\ UNCHANGED <<provider, depth>>
       ELSE /\ Normalize(<<>>, FALSE)
            /\ UNCHANGED <<provider, depth>>
    /\ UNCHANGED <<creds, initFailed, available_providers, clients,
                   current_provider, op, text, fails>>
    /\ UNCHANGED <<evars, avars, svars>>

\* variant: the provider that was called last becomes the current one
Finish_Sticky ==
    /\ gpc = "done"
    /\ gpc' = "ready"
    /\ op' = "none" /\ text' = <<>> /\ fails' = {} /\ provider' = "none"
    /\ depth' = 0 /\ callLog' = <<>> /\ errLog' = <<>> /\ content' = <<>>
    /\ raised' = FALSE /\ result' = <<>> /\ escaped' = FALSE
    /\ current_provider' = IF callLog = <<>> THEN current_provider
                           ELSE callLog[Len(callLog)]
    /\ UNCHANGED <<creds, initFailed, available_providers, clients>>
    /\ UNCHANGED <<evars, avars, svars>>

\* the caller takes the value; the generator is ready for the next call
Finish ==
    /\ gpc = "done"
    /\ gpc' = "ready"
    /\ op' = "none" /\ text' = <<>> /\ fails' = {} /\ provider' = "none"
    /\ depth' = 0 /\ callLog' = <<>> /\ errLog' = <<>> /\ content' = <<>>
    /\ raised' = FALSE /\ result' = <<>> /\ escaped' = FALSE
    /\ UNCHANGED <<creds, initFailed, available_providers, clients,
                   current_provider>>
    /\ UNCHANGED <<evars, avars, svars>>


(***************************************************************************)
(* DocumentProcessor: text helpers                                         *)
(***************************************************************************)
WS == {" ", "\n", "\t"}

\* x.strip() == ""
IsBlank(s) == \A i \in 1..Len(s) : s[i] \in WS

RECURSIVE SplitLines(_, _, _)

\* text.split('\n'): cur is the line being read, i the next index
SplitLines(s, i, cur) ==
    IF i > Len(s) THEN <<cur>>
    ELSE IF s[i] = "\n" THEN <<cur>> \o SplitLines(s, i + 1, <<>>)
    ELSE SplitLines(s, i + 1, Append(cur, s[i]))

RECURSIVE LStrip(_), RStrip(_)

LStrip(s) == IF s # <<>> /\ Head(s) \in WS THEN LStrip(Tail(s)) ELSE s

RStrip(s) ==
    IF s # <<>> /\ s[Len(s)] \in WS THEN RStrip(SubSeq(s, 1, Len(s) - 1)) ELSE s

\* variant: lstrip() in place of strip()
Strip_LeftOnly(s) == LStrip(s)

Strip(s) == RStrip(LStrip(s))

RECURSIVE CleanedLines(_), JoinLines(_), CollapseWS(_), CollapseWS_Pairs(_)

\* the loop building cleaned_lines
CleanedLines(ls) ==
    IF ls = <<>> THEN <<>>
    ELSE IF Strip(Head(ls)) # <<>>
         THEN <<Strip(Head(ls))>> \o CleanedLines(Tail(ls))
         ELSE CleanedLines(Tail(ls))

\* '\n'.join(cleaned_lines)
JoinLines(ls) ==
    IF ls = <<>> THEN <<>>
    ELSE IF Len(ls) = 1 THEN ls[1]
    ELSE ls[1] \o <<"\n">> \o JoinLines(Tail(ls))

\* variant: re.sub(r'\s\s', ' ', s)
CollapseWS_Pairs(s) ==
    IF s = <<>> THEN <<>>
    ELSE IF Len(s) >= 2 /\ s[1] \in WS /\ s[2] \in WS
         THEN <<" ">> \o CollapseWS_Pairs(SubSeq(s, 3, Len(s)))
    ELSE <<Head(s)>> \o CollapseWS_Pairs(Tail(s))

\* re.sub(r'\s+', ' ', s)
CollapseWS(s) ==
    IF s = <<>> THEN <<>>
    ELSE IF Head(s) \in WS THEN <<" ">> \o CollapseWS(LStrip(s))
    ELSE <<Head(s)>> \o CollapseWS(Tail(s))

_clean_text(t) ==
    IF t = <<>> THEN <<>>
    ELSE CollapseWS(JoinLines(CleanedLines(SplitLines(t, 1, <<>>))))

(***************************************************************************)
(* DocumentProcessor: the input file                                       *)
(***************************************************************************)
MaxPages == 2
MaxImages == 2
MaxDocxParts == 1

Num == <<"1", "2", "3", "4", "5">>

PageWord == <<"p1", "p2", "p3", "p4", "p5">>

OcrWord == <<"i1", "i2", "i3", "i4", "i5">>

\* what the reader returns for the native text of page n: blank, or text
NativeText(n, hasText) ==
    IF hasText THEN <<" ", PageWord[n], " ", " ", "x", "\n", "\n">> ELSE <<" ", "\n">>

\* per embedded image: OCR finds text / finds nothing / the image has four
\* or more colour planes / decoding or OCR raises
ImgOutcomes == {"text", "blank", "cmyk", "raise"}

\* A page without its images: whether it has native text and whether each
\* reader raises on it.  A reader that cannot open the file meets no page.
PageChoices(fitzOk, pypdfOk) ==
    [hasText : BOOLEAN,
     fitzRaises : IF fitzOk THEN BOOLEAN ELSE {FALSE},
     pypdfRaises : IF pypdfOk THEN BOOLEAN ELSE {FALSE}]

RECURSIVE ImageCount(_, _)

\* the number of images on pages 1..n, cnt[m] being the number on page m
ImageCount(cnt, n) == IF n = 0 THEN 0 ELSE cnt[n] + ImageCount(cnt, n - 1)

\* how the at most MaxImages images of a file of k pages lie on its pages
ImageCounts(k, fitzOk) ==
    IF fitzOk THEN { cnt \in [1..k -> 0..MaxImages] : ImageCount(cnt, k) <= MaxImages }
    ELSE { [n \in 1..k |-> 0] }

\* the pages of a file of k pages; a page PyMuPDF cannot load lists no image
PageSeqs(k, cnt, fitzOk, pypdfOk) ==
    { qs \in [1..k -> PageChoices(fitzOk, pypdfOk)] :
        \A n \in 1..k : qs[n].fitzRaises => cnt[n] = 0 }

\* the pages as the readers see them: page n carries its own text and its
\* own images, imgs being the outcomes of all images of the file in order
PdfPages(qs, cnt, imgs) ==
    [n \in 1..Len(qs) |->
        [native |-> NativeText(n, qs[n].hasText),
         fitzRaises |-> qs[n].fitzRaises,
         pypdfRaises |-> qs[n].pypdfRaises,
         images |-> SubSeq(imgs, ImageCount(cnt, n - 1) + 1, ImageCount(cnt, n))]]

FitzModes == {"missing", "openRaises", "ok"}

PypdfModes == {"openRaises", "encrypted", "ok"}

Exts == {".pdf", ".doc", ".DOC", ".docx", ".txt"}

\* variant: the extension is compared as it is written
Lower_AsWritten(e) == e

\* str.lower() on the extensions the model uses
Lower(e) == IF e = ".DOC" THEN ".doc" ELSE e

ParaChoices == { <<" ">>, <<"para", " ", "x">> }

DocxTables == SeqsUpTo(SeqsUpTo(SeqsUpTo(ParaChoices, MaxDocxParts), MaxDocxParts), MaxDocxParts)

DocxModes == {"raises", "ok"}

NoPdf == [pages |-> <<>>, fitz |-> "ok", pypdf |-> "ok"]

NoDocx == [mode |-> "ok", paragraphs |-> <<>>, tables |-> <<>>]

\* what python-docx finds in the file (a file it cannot parse shows nothing)
DocxContents ==
    { d \in [mode : DocxModes, paragraphs : SeqsUpTo(ParaChoices, MaxDocxParts),
             tables : DocxTables] :
        d.mode = "raises" => (d.paragraphs = <<>> /\ d.tables = <<>>) }

PdfFile(qs, cnt, imgs, fm, pm) ==
    [ext |-> ".pdf",
     pdf |-> [pages |-> PdfPages(qs, cnt, imgs), fitz |-> fm, pypdf |-> pm],
     docx |-> NoDocx]

DocxFile(e, d) == [ext |-> e, pdf |-> NoPdf, docx |-> d]

TxtFile == [ext |-> ".txt", pdf |-> NoPdf, docx |-> NoDocx]

(***************************************************************************)
(* DocumentProcessor: extraction strategies                                *)
(* A call yields [exc, val, err]: exc = TRUE when it raises, err is the    *)
(* chain of messages of the exception, outermost first.                    *)
(***************************************************************************)
Ok(t) == [exc |-> FALSE, val |-> t, err |-> <<>>]

Err(m) == [exc |-> TRUE, val |-> <<>>, err |-> m]

\* f"\n--- Page {n} ---\n"
PageMarker(n) == <<"\n", "---", " ", "Page", " ", Num[n], " ", "---", "\n">>

\* f"\n--- Images from Page {n} ---\n"
ImagesMarker(n) ==
    <<"\n", "---", " ", "Images", " ", "from", " ", "Page", " ", Num[n], " ", "---", "\n">>

\* f"\n[Image {i} on page {n}]\n"
ImageMarker(i, n) ==
    <<"\n", "[Image", " ", Num[i], " ", "on", " ", "page", " ", Num[n], "]", "\n">>

\* pytesseract.image_to_string for image i
OcrText(outcome, i) == IF outcome = "text" THEN <<OcrWord[i], "\n">> ELSE <<" ", "\n">>

RECURSIVE ImageLoop_AbortOnFailure(_, _, _)

\* variant: an image that cannot be read ends the loop over the images
ImageLoop_AbortOnFailure(images, i, n) ==
    IF i > Len(images) THEN <<>>
    ELSE IF images[i] \in {"raise", "cmyk"} THEN <<>>
    ELSE (IF ~IsBlank(OcrText(images[i], i))
          THEN ImageMarker(i, n) \o OcrText(images[i], i) \o <<"\n">>
          ELSE <<>>)
         \o ImageLoop_AbortOnFailure(images, i + 1, n)

RECURSIVE ImageLoop(_, _, _)

\* the loop over image_list of _extract_text_from_images_on_page
ImageLoop(images, i, n) ==
    IF i > Len(images) THEN <<>>
    ELSE (IF images[i] \in {"raise", "cmyk"} THEN <<>>
          ELSE IF ~IsBlank(OcrText(images[i], i))
               THEN ImageMarker(i, n) \o OcrText(images[i], i) \o <<"\n">>
               ELSE <<>>)
         \o ImageLoop(images, i + 1, n)

_extract_text_from_images_on_page(page, n) == ImageLoop(page.images, 1, n)

\* one page's native section, as both strategies build it
PageSection(page, n) ==
    IF ~IsBlank(page.native) THEN PageMarker(n) \o page.native \o <<"\n">> ELSE <<>>

ImagesSection(page, n) ==
    LET image_text == _extract_text_from_images_on_page(page, n)
    IN  IF ~IsBlank(image_text) THEN ImagesMarker(n) \o image_text \o <<"\n">> ELSE <<>>

RECURSIVE PrimaryLoop_ImagesFirst(_, _, _, _)

\* variant: a page's image section is added before its native section
PrimaryLoop_ImagesFirst(pages, n, acc, ocr) ==
    IF n > Len(pages) THEN [exc |-> FALSE, text |-> acc]
    ELSE IF pages[n].fitzRaises THEN [exc |-> TRUE, text |-> acc]
    ELSE PrimaryLoop_ImagesFirst(pages, n + 1,
                     acc \o (IF ocr THEN ImagesSection(pages[n], n) ELSE <<>>)
                         \o PageSection(pages[n], n),
                     ocr)

RECURSIVE PrimaryLoop(_, _, _, _)

\* the page loop of _extract_from_pdf_advanced; exc = TRUE when
\* load_page / get_text raises at some page
PrimaryLoop(pages, n, acc, ocr) ==
    IF n > Len(pages) THEN [exc |-> FALSE, text |-> acc]
    ELSE IF pages[n].fitzRaises THEN [exc |-> TRUE, text |-> acc]
    ELSE PrimaryLoop(pages, n + 1,
                     acc \o PageSection(pages[n], n)
                         \o (IF ocr THEN ImagesSection(pages[n], n) ELSE <<>>),
                     ocr)

\* the try block of _extract_from_pdf_advanced up to doc.close():
\* kind "raise" | "blank" | "text", text_content, and whether the
\* document handle is left open
PrimaryStrategy(pdf, ocr) ==
    IF pdf.fitz = "openRaises"
    THEN [kind |-> "raise", text |-> <<>>, open |-> FALSE]
    ELSE LET r == PrimaryLoop(pdf.pages, 1, <<>>, ocr)
         IN  IF r.exc THEN [kind |-> "raise", text |-> r.text, open |-> TRUE]
             ELSE IF IsBlank(r.text) THEN [kind |-> "blank", text |-> r.text, open |-> FALSE]
             ELSE [kind |-> "text", text |-> r.text, open |-> FALSE]

RECURSIVE SecondaryLoop_WithImages(_, _), SecondaryLoop_StopAtRaise(_, _)

\* variant: the secondary strategy also scans the page's images
SecondaryLoop_WithImages(pages, n) ==
    IF n > Len(pages) THEN <<>>
    ELSE (IF pages[n].pypdfRaises THEN <<>>
          ELSE PageSection(pages[n], n) \o ImagesSection(pages[n], n))
         \o SecondaryLoop_WithImages(pages, n + 1)

\* variant: a page that raises ends the loop
SecondaryLoop_StopAtRaise(pages, n) ==
    IF n > Len(pages) THEN <<>>
    ELSE IF pages[n].pypdfRaises THEN <<>>
    ELSE PageSection(pages[n], n) \o SecondaryLoop_StopAtRaise(pages, n + 1)

RECURSIVE SecondaryLoop(_, _)

\* the page loop of _extract_from_pdf: a page that raises is skipped
SecondaryLoop(pages, n) ==
    IF n > Len(pages) THEN <<>>
    ELSE (IF pages[n].pypdfRaises THEN <<>> ELSE PageSection(pages[n], n))
         \o SecondaryLoop(pages, n + 1)

\* variant: no check for an empty accumulated text
_extract_from_pdf_NoBlankCheck(pdf) ==
    IF pdf.pypdf = "openRaises"
    THEN Err(<<"Error reading PDF file", "reader error">>)
    ELSE IF pdf.pypdf = "encrypted"
    THEN Err(<<"Error reading PDF file", "PDF is password-protected">>)
    ELSE Ok(_clean_text(SecondaryLoop(pdf.pages, 1)))

_extract_from_pdf(pdf) ==
    IF pdf.pypdf = "openRaises"
    THEN Err(<<"Error reading PDF file", "reader error">>)
    ELSE IF pdf.pypdf = "encrypted"
    THEN Err(<<"Error reading PDF file", "PDF is password-protected">>)
    ELSE IF IsBlank(SecondaryLoop(pdf.pages, 1))
    THEN Err(<<"Error reading PDF file", "No readable text found in PDF">>)
    ELSE Ok(_clean_text(SecondaryLoop(pdf.pages, 1)))

RECURSIVE ParagraphLoop(_), CellLoop(_), RowLoop(_), TableLoop(_)

ParagraphLoop(ps) ==
    IF ps = <<>> THEN <<>>
    ELSE (IF ~IsBlank(Head(ps)) THEN Head(ps) \o <<"\n">> ELSE <<>>)
         \o ParagraphLoop(Tail(ps))

CellLoop(cs) ==
    IF cs = <<>> THEN <<>>
    ELSE (IF ~IsBlank(Head(cs)) THEN Head(cs) \o <<" ">> ELSE <<>>)
         \o CellLoop(Tail(cs))

RowLoop(rs) ==
    IF rs = <<>> THEN <<>> ELSE CellLoop(Head(rs)) \o <<"\n">> \o RowLoop(Tail(rs))

TableLoop(ts) ==
    IF ts = <<>> THEN <<>> ELSE RowLoop(Head(ts)) \o TableLoop(Tail(ts))

\* the try block of _extract_from_docx raises?
DocxTryRaises(d) ==
    d.mode = "raises" \/ IsBlank(ParagraphLoop(d.paragraphs) \o TableLoop(d.tables))

\* variant: no test for the legacy extension
_extract_from_docx_NoLegacyTest(ext, d) ==
    IF DocxTryRaises(d)
    THEN Err(<<"Error reading document",
               IF d.mode = "raises" THEN "reader error"
               ELSE "No readable text found in document">>)
    ELSE Ok(_clean_text(ParagraphLoop(d.paragraphs) \o TableLoop(d.tables)))

_extract_from_docx(ext, d) ==
    IF DocxTryRaises(d)
    THEN IF Lower(ext) = ".doc"
         THEN Err(<<"Legacy .doc files are not fully supported">>)
         ELSE Err(<<"Error reading document",
                    IF d.mode = "raises" THEN "reader error"
                    ELSE "No readable text found in document">>)
    ELSE Ok(_clean_text(ParagraphLoop(d.paragraphs) \o TableLoop(d.tables)))

\* "except Exception as e: raise Exception(f'Failed to extract ...')"
WrapFailure(r) ==
    IF r.exc THEN Err(<<"Failed to extract text from document">> \o r.err) ELSE r

(***************************************************************************)
(* DocumentProcessor: actions                                              *)
(***************************************************************************)
NoOutcome == [exc |-> FALSE, val |-> <<>>, err |-> <<>>]

NoFile == TxtFile

ExtIdle ==
    /\ epc = "idle" /\ file = NoFile /\ use_ocr = TRUE /\ primary = "none"
    /\ text_content = <<>> /\ secRuns = 0 /\ fitzOpen = FALSE
    /\ source = "none" /\ eout = NoOutcome

\* extract_text(file_path): dispatch on the lower-cased extension.  For a
\* PDF, _extract_from_pdf_advanced starts: without PyMuPDF it calls the
\* secondary strategy at once, outside its try block.
Dispatch(f, o) ==
    /\ file' = f
    /\ use_ocr' = o
    /\ IF Lower(f.ext) = ".pdf"
       THEN /\ epc' = IF f.pdf.fitz = "missing" THEN "secondary" ELSE "primary"
            /\ eout' = NoOutcome
       ELSE IF Lower(f.ext) \in {".doc", ".docx"}
       THEN /\ epc' = "docx"
            /\ eout' = NoOutcome
       ELSE /\ epc' = "done"
            /\ eout' = WrapFailure(Err(<<"Unsupported file format">>))

\* extract_text is called on a PDF while self.use_ocr is o
ExtractPdf(o) ==
    \E fm \in FitzModes, pm \in PypdfModes, k \in 0..MaxPages :
      \E cnt \in ImageCounts(k, fm = "ok") :
        \E qs \in PageSeqs(k, cnt, fm = "ok", pm = "ok"),
           imgs \in [1..ImageCount(cnt, k) -> ImgOutcomes] :
          Dispatch(PdfFile(qs, cnt, imgs, fm, pm), o)

\* ... on a .doc / .docx file
ExtractDocx(o) ==
    \E e \in Exts \ {".pdf", ".txt"}, d \in DocxContents : Dispatch(DocxFile(e, d), o)

\* ... on a file of another type
ExtractOther(o) == Dispatch(TxtFile, o)

StartExtract ==
    /\ epc = "idle"
    /\ \E o \in BOOLEAN : ExtractPdf(o) \/ ExtractDocx(o) \/ ExtractOther(o)
    /\ UNCHANGED <<primary, text_content, secRuns, fitzOpen, source>>
    /\ UNCHANGED <<gvars, avars, svars>>

\* the try block of _extract_from_pdf_advanced, up to the blank check
RunPrimary ==
    /\ epc = "primary"
    /\ LET r == PrimaryStrategy(file.pdf, use_ocr)
       IN  /\ primary' = r.kind
           /\ text_content' = r.text
           /\ fitzOpen' = r.open
           /\ IF r.kind = "text"
              THEN /\ epc' = "done"
                   /\ source' = "primary"
                   /\ eout' = WrapFailure(Ok(_clean_text(r.text)))
              ELSE /\ epc' = IF r.kind = "blank" THEN "secondary_in_try" ELSE "secondary"
                   /\ UNCHANGED <<source, eout>>
    /\ UNCHANGED <<file, use_ocr, secRuns>>
    /\ UNCHANGED <<gvars, avars, svars>>

\* one call of _extract_from_pdf.  The call made after a blank primary
\* result stands inside the try block of _extract_from_pdf_advanced: when
\* it raises, the except clause calls _extract_from_pdf again.
RunSecondary ==
    /\ epc \in {"secondary", "secondary_in_try"}
    /\ secRuns' = secRuns + 1
    /\ LET r == _extract_from_pdf(file.pdf)
       IN  IF r.exc /\ epc = "secondary_in_try"
           THEN /\ epc' = "secondary"
                /\ UNCHANGED <<source, eout>>
           ELSE /\ epc' = "done"
                /\ source' = IF r.exc THEN "none" ELSE "secondary"
                /\ eout' = WrapFailure(r)
    /\ UNCHANGED <<file, use_ocr, primary, text_content, fitzOpen>>
    /\ UNCHANGED <<gvars, avars, svars>>

RunDocx ==
    /\ epc = "docx"
    /\ LET r == _extract_from_docx(file.ext, file.docx)
       IN  /\ eout' = WrapFailure(r)
           /\ source' = IF r.exc THEN "none" ELSE "docx"
    /\ epc' = "done"
    /\ UNCHANGED <<file, use_ocr, primary, text_content, secRuns, fitzOpen>>
    /\ UNCHANGED <<gvars, avars, svars>>

\* the caller has the outcome; the processor is ready for the next file
EndExtract ==
    /\ epc = "done"
    /\ epc' = "idle" /\ file' = NoFile /\ use_ocr' = TRUE /\ primary' = "none"
    /\ text_content' = <<>> /\ secRuns' = 0 /\ fitzOpen' = FALSE
    /\ source' = "none" /\ eout' = NoOutcome
    /\ UNCHANGED <<gvars, avars, svars>>

(***************************************************************************)
(* app.py: the "Process Document" branch of upload_document_page           *)
(***************************************************************************)
AppIdle ==
    /\ upc = "idle" /\ tmp_file_path = "None" /\ tmp_exists = FALSE
    /\ upload_exit = "none" /\ checkbox_use_ocr = TRUE

\* The page is rendered with the checkbox at cb, which line 31 copies into
\* doc_processor.use_ocr, and
\* "Process Document" is pressed: NamedTemporaryFile(delete=False) creates
\* the file, then the upload is written into it; tmp_file_path is assigned
\* after the write.  When the write raises, the except clause finds
\* tmp_file_path still None and unlinks nothing.
ProcessDocument ==
    /\ upc = "idle" /\ epc = "idle"
    /\ \E cb \in BOOLEAN : checkbox_use_ocr' = cb /\ use_ocr' = cb
    /\ tmp_exists' = TRUE
    /\ \E writeRaises \in BOOLEAN :
         IF writeRaises
         THEN /\ tmp_file_path' = "None"
              /\ upc' = "finished"
              /\ upload_exit' = "write_error"
         ELSE /\ tmp_file_path' = "tmp"
              /\ upc' = "extracting"
              /\ upload_exit' = "none"
    /\ UNCHANGED <<epc, file, primary, text_content, secRuns, fitzOpen,
                   source, eout>>
    /\ UNCHANGED <<gvars, svars>>

\* doc_processor.extract_text(tmp_file_path) starts on the temporary copy;
\* the uploader accepts the types pdf, doc and docx
UploadStartExtract ==
    /\ epc = "idle"
    /\ ExtractPdf(use_ocr) \/ ExtractDocx(use_ocr)
    /\ UNCHANGED <<primary, text_content, secRuns, fitzOpen, source>>
    /\ UNCHANGED <<gvars, avars, svars>>

\* ... and runs
UploadExtract ==
    /\ upc = "extracting"
    /\ UploadStartExtract \/ RunPrimary \/ RunSecondary \/ RunDocx

\* os.unlink in the except clause of upload_document_page
UnlinkInExcept == IF tmp_file_path # "None" /\ tmp_exists THEN FALSE ELSE tmp_exists

\* extract_text has returned or raised: the blank-text return, the three
\* generate_* calls (genRaises: something in that block raises) and the
\* unlink of each exit path
AfterExtract ==
    /\ upc = "extracting" /\ epc = "done"
    /\ IF eout.exc
       THEN /\ tmp_exists' = UnlinkInExcept
            /\ upload_exit' = "extract_error"
       ELSE IF IsBlank(eout.val)
       THEN /\ tmp_exists' = FALSE
            /\ upload_exit' = "blank"
       ELSE \E genRaises \in BOOLEAN :
              IF genRaises
              THEN /\ tmp_exists' = UnlinkInExcept
                   /\ upload_exit' = "generate_error"
              ELSE /\ tmp_exists' = FALSE
                   /\ upload_exit' = "success"
    /\ upc' = "finished"
    /\ epc' = "idle" /\ file' = NoFile /\ primary' = "none"
    /\ text_content' = <<>> /\ secRuns' = 0 /\ fitzOpen' = FALSE
    /\ source' = "none" /\ eout' = NoOutcome
    /\ UNCHANGED <<gvars, svars, use_ocr, tmp_file_path, checkbox_use_ocr>>

(***************************************************************************)
(* studyai_standalone.py: main                                             *)
(***************************************************************************)
MaxGenerated == 1

\* an item of a generated list: a mapping with the keys pdf_exporter
\* indexes ('question', 'answer' / 'term', 'definition'), or one without
ItemKinds == {"full", "bare"}

ListValue(items) == [kind |-> "list", items |-> items]

DictValue(keys) == [kind |-> "dict", items |-> keys]

\* what generate_questions_answers / generate_flash_cards hand back
GeneratedLists == { ListValue(items) : items \in SeqsUpTo(ItemKinds, MaxGenerated) }

\* what generate_summaries hands back: {} or a mapping with entries
GeneratedSummaries == { DictValue(<<>>), DictValue(<<"main_summary">>) }

\* Python truth value of a list or dict
Truthy(v) == v.items # <<>>

\* self.study_materials as __init__ leaves it
NoMaterials ==
    [questions |-> ListValue(<<>>), flashcards |-> ListValue(<<>>),
     summaries |-> ListValue(<<>>)]

MainIdle ==
    /\ mpc = "start" /\ no_ocr = FALSE /\ self_use_ocr = TRUE
    /\ quiet = FALSE /\ output_json = FALSE /\ output_pdf = FALSE
    /\ study_materials = NoMaterials /\ written = {} /\ exit_code = "none"

\* parse_args and StudyAIStandalone(use_ocr=not args.no_ocr, ...): the flag
\* is stored in self.use_ocr; DocumentProcessor() sets its own use_ocr to
\* True.  The options --quiet, --output-json and --output-pdf are drawn
\* where main first reads them.
StartMain ==
    /\ mpc = "start" /\ epc = "idle"
    /\ \E n \in BOOLEAN : no_ocr' = n /\ self_use_ocr' = ~n
    /\ use_ocr' = TRUE
    /\ mpc' = "processing"
    /\ UNCHANGED <<quiet, output_json, output_pdf, study_materials, written,
                   exit_code>>
    /\ UNCHANGED <<epc, file, primary, text_content, secRuns, fitzOpen,
                   source, eout>>
    /\ UNCHANGED <<gvars, avars>>

\* main's "except Exception": report and sys.exit(1)
MainFails(at) ==
    /\ mpc' = at
    /\ exit_code' = 1

\* process_document on a path that does not exist, or on a .txt file, which
\* it reads itself
ProcessWithoutExtract ==
    /\ mpc = "processing" /\ epc = "idle"
    /\ \E outcome \in {"missing", "txt_raises", "txt_blank", "txt_text"} :
         IF outcome = "txt_text"
         THEN mpc' = "processed" /\ exit_code' = exit_code
         ELSE MainFails("aborted")
    /\ UNCHANGED <<no_ocr, self_use_ocr, quiet, output_json, output_pdf,
                   study_materials, written>>
    /\ UNCHANGED <<gvars, evars, avars>>

\* self.doc_processor.extract_text(file_path) starts on a file of another
\* extension
MainStartExtract ==
    /\ epc = "idle"
    /\ ExtractPdf(use_ocr) \/ ExtractDocx(use_ocr)
    /\ UNCHANGED <<primary, text_content, secRuns, fitzOpen, source>>
    /\ UNCHANGED <<gvars, avars, svars>>

\* ... and runs
MainExtract ==
    /\ mpc = "processing"
    /\ MainStartExtract \/ RunPrimary \/ RunSecondary \/ RunDocx

\* extract_text has returned or raised: the blank test of process_document
ProcessDocumentEnds ==
    /\ mpc = "processing" /\ epc = "done"
    /\ IF eout.exc \/ IsBlank(eout.val)
       THEN MainFails("aborted")
       ELSE mpc' = "processed" /\ exit_code' = exit_code
    /\ epc' = "idle" /\ file' = NoFile /\ primary' = "none"
    /\ text_content' = <<>> /\ secRuns' = 0 /\ fitzOpen' = FALSE
    /\ source' = "none" /\ eout' = NoOutcome
    /\ UNCHANGED <<no_ocr, self_use_ocr, quiet, output_json, output_pdf,
                   study_materials, written, use_ocr>>
    /\ UNCHANGED <<gvars, avars>>

\* generate_study_materials: the three generate_* calls, none of which
\* raises
GenerateStudyMaterials ==
    /\ mpc = "processed"
    /\ \E q \in GeneratedLists, f \in GeneratedLists, s \in GeneratedSummaries :
         study_materials' = [questions |-> q, flashcards |-> f, summaries |-> s]
    /\ mpc' = "generated"
    /\ UNCHANGED <<no_ocr, self_use_ocr, quiet, output_json, output_pdf,
                   written, exit_code>>
    /\ UNCHANGED <<gvars, evars, avars>>

\* one section of print_summary: "if v: len(v) ... for x in v[:n]: x.get(..)"
\* raises for a mapping with entries, which cannot be sliced
SectionRaises(v, n) == Truthy(v) /\ v.kind = "dict"

print_summaryRaises(m) ==
    \/ SectionRaises(m.questions, 3)
    \/ SectionRaises(m.flashcards, 3)
    \/ SectionRaises(m.summaries, 2)

\* _add_questions_section / _add_flashcards_section index qa['question'],
\* qa['answer'], card['term'], card['definition']
ListSectionRaises(v) ==
    Truthy(v) /\ \E i \in 1..Len(v.items) : v.items[i] = "bare"

\* create_study_materials_pdf re-raises what its sections raise
save_to_pdfRaises(m) ==
    \/ ListSectionRaises(m.questions)
    \/ ListSectionRaises(m.flashcards)
    \/ Truthy(m.summaries) /\ m.summaries.kind # "dict"

Exit(files, code) == [written |-> files, code |-> code]

\* the default outputs, written when neither output option is given
DefaultOutputs(m, ojson, opdf, files) ==
    IF ojson \/ opdf THEN Exit(files, 0)
    ELSE IF save_to_pdfRaises(m) THEN Exit(files \cup {"default_json"}, 1)
    ELSE Exit(files \cup {"default_json", "default_pdf"}, 0)

\* "if not args.quiet: studyai.print_summary()", then the default outputs
Summary(m, ojson, opdf, q, files) ==
    IF ~q /\ print_summaryRaises(m) THEN Exit(files, 1)
    ELSE DefaultOutputs(m, ojson, opdf, files)

\* main from "Save outputs" to its end
SaveOutputs(m, ojson, opdf, q) ==
    LET afterJson == IF ojson THEN {"json"} ELSE {}
    IN  IF opdf /\ save_to_pdfRaises(m) THEN Exit(afterJson, 1)
        ELSE Summary(m, ojson, opdf, q, afterJson \cup (IF opdf THEN {"pdf"} ELSE {}))

FinishMain ==
    /\ mpc = "generated"
    /\ \E ojson \in BOOLEAN, opdf \in BOOLEAN, q \in BOOLEAN :
         /\ output_json' = ojson /\ output_pdf' = opdf /\ quiet' = q
         /\ LET e == SaveOutputs(study_materials, ojson, opdf, q)
            IN  written' = e.written /\ exit_code' = e.code
    /\ mpc' = "exited"
    /\ UNCHANGED <<no_ocr, self_use_ocr, study_materials>>
    /\ UNCHANGED <<gvars, evars, avars>>

\* nothing constructed, no call in progress
Init == GenIdle /\ ExtIdle /\ AppIdle /\ MainIdle

UploadNext == ProcessDocument \/ UploadExtract \/ AfterExtract

\* one processing call of the upload page
SpecUpload == Init /\ [][UploadNext]_vars

MainNext ==
    \/ StartMain \/ ProcessWithoutExtract \/ MainExtract
    \/ ProcessDocumentEnds \/ GenerateStudyMaterials \/ FinishMain

\* one run of the command-line program
SpecMain == Init /\ [][MainNext]_vars

ExtNext == StartExtract \/ RunPrimary \/ RunSecondary \/ RunDocx \/ EndExtract

\* the document processor alone
SpecExtract == Init /\ [][ExtNext]_vars

(***************************************************************************)
(* Specifications                                                          *)
(***************************************************************************)
GenNext ==
    Construct \/ ProviderOverride \/ StartGenerate \/ CallReturns \/ CallRaises \/ Finish

\* the content generator alone
SpecGen == Init /\ [][GenNext]_vars

(***************************************************************************)
(* Response normalisation alone: generate_* from the point where           *)
(* _generate_with_provider has returned, over responses built from JSON    *)
(* values and prose.                                                       *)
(***************************************************************************)
MaxItems == 2

RECURSIVE Flatten(_)

\* the concatenation of a sequence of token sequences
Flatten(ss) == IF ss = <<>> THEN <<>> ELSE Head(ss) \o Flatten(Tail(ss))

\* the values found inside arrays and objects
Atoms == { <<"1">>, EmptyList, <<"[", "1", "]">>, EmptyDict }

Members == { <<k>> \o a : k \in Keys, a \in Atoms }

ListBodies == { <<"[">> \o Flatten(items) \o <<"]">> : items \in SeqsUpTo(Atoms, MaxItems) }

DictBodies == { <<"{">> \o Flatten(ms) \o <<"}">> : ms \in SeqsUpTo(Members, MaxItems) }

\* a JSON document: a scalar, an array or an object (keys may repeat)
Bodies == { <<"1">> } \cup ListBodies \cup DictBodies

\* what precedes the first JSON region: nothing, or prose / a markdown fence
Leads == { <<>>, <<"w">> }

\* what follows it: nothing, or prose, possibly with a second region in it
Trails ==
    { <<>> } \cup
    { <<"w">> \o r \o q : r \in { <<>>, EmptyList, <<"[", "1", "]">>, EmptyDict },
                         q \in { <<>>, <<"w">> } }

\* generate_* of operation o has received c from the one configured
\* provider and is about to parse it
ProviderReturned(o, c) ==
    /\ gpc = "returned"
    /\ creds = {"gemini"} /\ initFailed = {}
    /\ available_providers = <<"gemini">> /\ clients = {"gemini"}
    /\ current_provider = "gemini"
    /\ op = o /\ text = <<>> /\ fails = {} /\ provider = "gemini"
    /\ depth = 1 /\ callLog = <<"gemini">> /\ errLog = <<>>
    /\ content = c /\ raised = FALSE /\ result = <<>> /\ escaped = FALSE

ParseInit ==
    /\ ExtIdle /\ AppIdle /\ MainIdle
    /\ \E o \in Ops, l \in Leads, b \in Bodies, t \in Trails :
         ProviderReturned(o, l \o b \o t)

\* the statements of generate_* after the provider call: parse, unwrap,
\* outer except
ParseAndShape ==
    /\ gpc = "returned"
    /\ Normalize(content, raised)
    /\ UNCHANGED <<creds, initFailed, available_providers, clients,
                   current_provider, op, text, fails, provider, depth,
                   callLog, errLog>>
    /\ UNCHANGED <<evars, avars, svars>>

SpecParse == ParseInit /\ [][ParseAndShape]_vars

(***************************************************************************)
(* _clean_text alone, over strings of characters                           *)
(***************************************************************************)
MaxCleanLen == 5

\* two letters and the three kinds of whitespace
CleanAlphabet == {"a", "b", " ", "\n", "\t"}

\* a strategy has built the raw text x and is about to return _clean_text(x)
CleanInit ==
    /\ GenIdle /\ AppIdle /\ MainIdle
    /\ epc = "raw" /\ file = NoFile /\ use_ocr = TRUE /\ primary = "none"
    /\ secRuns = 0 /\ fitzOpen = FALSE /\ source = "none" /\ eout = NoOutcome
    /\ text_content \in SeqsUpTo(CleanAlphabet, MaxCleanLen)

\* "return self._clean_text(text_content)"
CleanText ==
    /\ epc = "raw"
    /\ eout' = Ok(_clean_text(text_content))
    /\ epc' = "cleaned"
    /\ UNCHANGED <<file, use_ocr, primary, text_content, secRuns, fitzOpen, source>>
    /\ UNCHANGED <<gvars, avars, svars>>

SpecClean == CleanInit /\ [][CleanText]_vars

(***************************************************************************)
(* Properties of the content generator (checked under SpecGen)             *)
(***************************************************************************)
Last(q) == q[Len(q)]

RequestDone == gpc = "done" /\ op # "none"

\* C1: whenever some available provider would answer the prompt, the request
\* ends with _generate_with_provider returning normally the answer of a
\* provider whose call did not raise.
C1_WorkingProviderAnswers ==
    (RequestDone /\ \E p \in SeqToSet(available_providers) : ~CallRaisesFor(p))
        => (~raised /\ callLog # <<>> /\ ~CallRaisesFor(Last(callLog)))

\* C2: fallback is a single hop: one generation request makes at most two
\* provider calls, the second one against the next-ranked available provider.
C2_AtMostTwoCalls ==
    /\ Len(callLog) <= 2
    /\ Len(callLog) = 2 => callLog[2] = remaining_providers(callLog[1])[1]

TemplateFor(o) ==
    CASE o = "questions" -> _create_template_questions
      [] o = "flash"     -> _create_template_flashcards
      [] o = "summaries" -> _create_template_summary

\* C3: with no credential present the active provider is local and every
\* generation operation returns its own template, for every document text.
C3_LocalReturnsOwnTemplate ==
    (creds = {} /\ gpc # "new")
        => /\ current_provider = "local"
           /\ RequestDone => (~escaped /\ result = TemplateFor(op))

\* C4: with exactly two available providers, the higher-priority one tried
\* first and raising, the lower-priority one answering: the request returns
\* the lower-priority provider's answer, the failure of the higher-priority
\* one is reported once, and no exception leaves _generate_with_provider.
C4_Premise ==
    /\ RequestDone
    /\ Len(available_providers) = 2
    /\ current_provider = available_providers[1]
    /\ available_providers[1] \in fails
    /\ available_providers[2] \notin fails

C4_FallbackToLowerPriority ==
    C4_Premise
        => /\ ~raised /\ ~escaped
           /\ callLog = <<available_providers[1], available_providers[2]>>
           /\ errLog = <<available_providers[1]>>

C4_Witness == C4_Premise /\ content # <<>>

\* the response yields no value: neither the text nor the bracketed region
\* the regular expression finds parses
Unparseable(o, c) ==
    LET open == IF o = "summaries" THEN "{" ELSE "["
        close == IF o = "summaries" THEN "}" ELSE "]"
    IN  /\ ~JsonLoads(c).ok
        /\ ~(RegexSearch(c, open, close).found
             /\ JsonLoads(RegexSearch(c, open, close).group).ok)

\* C10: no generate_* operation raises to its caller; it always returns a
\* JSON value, and the empty list / mapping when every provider failed, the
\* text was empty or the response could not be parsed.
C10_GenerateNeverRaises ==
    RequestDone
        => /\ ~escaped
           /\ JsonLoads(result).ok
           /\ (raised \/ content = <<>> \/ Unparseable(op, content))
                 => result = EmptyFor(op)

\* the regular expression finds a region and parsing that region raises
C10_Witness ==
    /\ RequestDone /\ ~raised /\ content # <<>>
    /\ ~JsonLoads(content).ok
    /\ RegexSearch(content, "[", "]").found
    /\ op = "questions"
    /\ result = EmptyList

(***************************************************************************)
(* Properties of extract_text (checked under SpecExtract)                  *)
(***************************************************************************)
ExtractDone == epc = "done"

IsPdf == Lower(file.ext) = ".pdf"

Returned == ExtractDone /\ ~eout.exc

\* C5: extract_text never returns a blank string: it returns text with a
\* non-whitespace character or it fails.
C5_NeverBlank == ExtractDone => (eout.exc \/ ~IsBlank(eout.val))

\* every page of a PDF is blank for both strategies, and extract_text fails
C5_Witness ==
    /\ ExtractDone /\ IsPdf /\ primary = "blank" /\ secRuns > 0
    /\ Len(file.pdf.pages) > 0 /\ file.pdf.pypdf = "ok"
    /\ eout.exc

\* the primary strategy took text from at least one page
PrimaryGotText == primary # "none" /\ ~IsBlank(text_content)

\* the secondary strategy took text from at least one page
SecondaryGotText ==
    /\ secRuns > 0 /\ file.pdf.pypdf = "ok"
    /\ \E n \in 1..Len(file.pdf.pages) :
         ~file.pdf.pages[n].pypdfRaises /\ ~IsBlank(file.pdf.pages[n].native)

\* C6: for a PDF with a non-blank page, extract_text returns non-blank text
\* exactly when a strategy extracted text from at least one page.
C6_TextIffSomeStrategySucceeds ==
    (ExtractDone /\ IsPdf
       /\ \E n \in 1..Len(file.pdf.pages) : ~IsBlank(file.pdf.pages[n].native))
        => ((~eout.exc /\ ~IsBlank(eout.val)) <=> (PrimaryGotText \/ SecondaryGotText))

PrimaryUnavailable == file.pdf.fitz = "missing"

PrimaryRaises ==
    \/ file.pdf.fitz = "openRaises"
    \/ file.pdf.fitz = "ok" /\ \E n \in 1..Len(file.pdf.pages) : file.pdf.pages[n].fitzRaises

PrimaryAllBlank ==
    /\ file.pdf.fitz = "ok"
    /\ \A n \in 1..Len(file.pdf.pages) :
         /\ ~file.pdf.pages[n].fitzRaises
         /\ IsBlank(file.pdf.pages[n].native)
         /\ use_ocr => \A i \in 1..Len(file.pdf.pages[n].images) :
                          file.pdf.pages[n].images[i] # "text"

OcrTokens == {"Images", "[Image"} \cup SeqToSet(OcrWord)

\* C7: the secondary strategy runs exactly when the primary one is
\* unavailable, raises or yields only blank text; a result that comes from
\* the secondary strategy holds no image marker and no OCR text, and only
\* text of pages the secondary strategy itself could read.
C7_SecondaryOnlyAsFallback ==
    (ExtractDone /\ IsPdf)
        => /\ (secRuns > 0) <=> (PrimaryUnavailable \/ PrimaryRaises \/ PrimaryAllBlank)
           /\ source = "secondary"
                => /\ \A i \in 1..Len(eout.val) : eout.val[i] \notin OcrTokens
                   /\ \A n \in 1..Len(file.pdf.pages) :
                        Contains(eout.val, PageWord[n])
                            => ~file.pdf.pages[n].pypdfRaises

\* OCR is on, the primary strategy had accumulated OCR text when a later
\* page raised, and the secondary strategy produced the result
C7_Witness ==
    /\ ExtractDone /\ IsPdf /\ use_ocr /\ primary = "raise"
    /\ \E i \in 1..Len(text_content) : text_content[i] \in OcrTokens
    /\ source = "secondary" /\ ~eout.exc

\* C8: an encrypted PDF makes extract_text fail with the encrypted-document
\* error, whatever the primary strategy does.
C8_EncryptedAlwaysFails ==
    (ExtractDone /\ IsPdf /\ file.pdf.pypdf = "encrypted")
        => (eout.exc /\ Contains(eout.err, "PDF is password-protected"))

\* page k raises for every reader, every other page is readable
OneBadPage(k) ==
    /\ IsPdf /\ file.pdf.pypdf = "ok"
    /\ Len(file.pdf.pages) >= 2
    /\ k \in 1..Len(file.pdf.pages)
    /\ file.pdf.pages[k].pypdfRaises
    /\ file.pdf.fitz = "ok" => file.pdf.pages[k].fitzRaises
    /\ \A n \in 1..Len(file.pdf.pages) :
         n # k => /\ ~file.pdf.pages[n].pypdfRaises
                  /\ ~file.pdf.pages[n].fitzRaises
                  /\ ~IsBlank(file.pdf.pages[n].native)

RECURSIVE PagesExcept(_, _, _)

\* the cleaned text of pages n..last without page k
PagesExcept(last, k, n) ==
    IF n > last THEN <<>>
    ELSE IF n = k THEN PagesExcept(last, k, n + 1)
    ELSE <<"---", " ", "Page", " ", Num[n], " ", "---", " ", PageWord[n], " ", "x">>
         \o (IF \E m \in (n + 1)..last : m # k THEN <<" ">> ELSE <<>>)
         \o PagesExcept(last, k, n + 1)

ListOp == op \in {"questions", "flash"}

\* C11: whatever the provider replied, the list-shaped operations return a
\* JSON array and generate_summaries returns a JSON object, also when an
\* alias key of a wrapping object holds something that is not an array.
C11_StructurallyValid ==
    RequestDone =>
        /\ ~escaped
        /\ IF ListOp THEN IsList(result) ELSE IsDict(result)

\* prose around a region delimited by open/close: words, no such delimiter,
\* no JSON key or scalar
IsProse(s, open, close) ==
    /\ \A k \in 1..Len(s) : s[k] \notin ({open, close} \cup Keys \cup Scalars)
    /\ s = <<>> \/ Contains(s, "w")

SoleRegion(i, j, open, close) ==
    /\ content[i] = open
    /\ JsonLoads(SubSeq(content, i, j)).ok
    /\ IsProse(SubSeq(content, 1, i - 1), open, close)
    /\ IsProse(SubSeq(content, j + 1, Len(content)), open, close)

\* C12: a response that is one valid JSON array with bracket-free prose
\* before and/or after it is normalised by the list-shaped operations to
\* exactly that array; one valid JSON object with brace-free prose around
\* it is returned by generate_summaries as exactly that object.
C12_ProseWrappedRegionExtracted ==
    RequestDone =>
        \A i \in 1..Len(content), j \in 1..Len(content) :
            /\ (ListOp /\ i <= j /\ SoleRegion(i, j, "[", "]"))
                   => result = SubSeq(content, i, j)
            /\ (~ListOp /\ i <= j /\ SoleRegion(i, j, "{", "}"))
                   => result = SubSeq(content, i, j)

C12_Witness ==
    \/ /\ RequestDone /\ op = "flash"
       /\ content = <<"w", "[", "[", "]", "1", "]", "w", "{", "}", "w">>
       /\ result = <<"[", "[", "]", "1", "]">>
    \/ /\ RequestDone /\ op = "summaries"
       /\ content = <<"w", "{", "other:", "1", "}", "w", "[", "]">>
       /\ result = <<"{", "other:", "1", "}">>

\* the first balanced region that starts with open: <<>> when there is none
FirstRegion(s, open) ==
    LET os == { i \in 1..Len(s) : s[i] = open }
    IN  IF os = {} THEN <<>>
        ELSE LET i == CHOOSE x \in os : \A y \in os : x <= y
                 e == ValueEnd(s, i)
             IN  IF e = 0 THEN <<>> ELSE SubSeq(s, i, e - 1)

ShapeFor(o, v) ==
    CASE o = "questions" -> QuestionsShape(v)
      [] o = "flash"     -> FlashShape(v)
      [] o = "summaries" -> SummaryShape(v)

\* C13: when the direct parse of the response fails, what is parsed is the
\* first balanced bracketed (for summaries: braced) region of the response,
\* also when several such regions are separated by prose.
C13_FirstBalancedRegionParsed ==
    LET region == FirstRegion(content, IF ListOp THEN "[" ELSE "{")
    IN  (RequestDone /\ ~JsonLoads(content).ok /\ region # <<>>)
            => result = ShapeFor(op, region)

\* C14: generate_flash_cards, given a response that parses to an object
\* whose key 'flashcards' holds a list, returns that list, also when the
\* object has the key 'cards' as well.
C14_FlashcardsKeyUnwrapped ==
    LET pr == ParseResponse(content, "[", "]")
    IN  (/\ RequestDone /\ op = "flash"
         /\ pr.kind = "value" /\ IsDict(pr.val)
         /\ DictHas(pr.val, "flashcards:")
         /\ IsList(DictGet(pr.val, "flashcards:")))
            => result = DictGet(pr.val, "flashcards:")

C14_Witness ==
    /\ RequestDone /\ op = "flash"
    /\ content = <<"{", "cards:", "[", "]", "flashcards:", "[", "1", "]", "}">>
    /\ result = <<"[", "1", "]">>

Aliases == {"questions:", "flashcards:", "cards:"}

\* C15: for both list-shaped operations, a parsed wrapping object that has
\* one of the alias keys 'questions', 'flashcards', 'cards' is unwrapped to
\* the value under such a key; only an object with none of them yields the
\* empty list.
C15_AnyAliasUnwrapped ==
    (RequestDone /\ ListOp /\ JsonLoads(content).ok /\ IsDict(content))
        => IF \E k \in Aliases : DictHas(content, k)
           THEN \E k \in Aliases : DictHas(content, k) /\ result = DictGet(content, k)
           ELSE result = EmptyList

(***************************************************************************)
(* Properties of the provider registry (checked under SpecGen)             *)
(***************************************************************************)
\* rank under gemini > claude > openai > local: 1 is the highest
Rank(p) ==
    CASE p = "gemini" -> 1 [] p = "claude" -> 2 [] p = "openai" -> 3
      [] p = "local" -> 4 [] OTHER -> 5

\* C16: when ContentGenerator has been constructed, current_provider is the
\* highest-ranked member of available_providers under the order gemini >
\* claude > openai > local, and it is 'local' exactly when no credentialed
\* provider is available.
C16_BestProviderSelected ==
    gpc = "constructed" =>
        /\ current_provider \in SeqToSet(available_providers)
        /\ \A q \in SeqToSet(available_providers) : Rank(current_provider) <= Rank(q)
        /\ current_provider = "local" <=> (creds \ initFailed) = {}

C16_Witness ==
    /\ gpc = "constructed"
    /\ creds = {"gemini", "claude", "openai"} /\ initFailed = {"gemini"}
    /\ current_provider = "claude"

\* C17: once the generator is constructed, whatever credentials are set
\* and whichever client constructors raise: available_providers lists
\* exactly the providers with a credential and an initialised client, in
\* priority order, or only 'local' when there is none; it is never empty;
\* every member other than 'local' has a client; current_provider is a
\* member of available_providers, before and after the --provider override.
C17_RegistryInvariant ==
    gpc # "new" =>
        /\ available_providers # <<>>
        /\ IF creds \ initFailed = {}
           THEN available_providers = <<"local">>
           ELSE /\ SeqToSet(available_providers) = creds \ initFailed
                /\ \A i \in 1..Len(available_providers), j \in 1..Len(available_providers) :
                       i < j => Rank(available_providers[i]) < Rank(available_providers[j])
        /\ \A p \in SeqToSet(available_providers) \ {"local"} : p \in clients
        /\ current_provider \in SeqToSet(available_providers)

C17_Witness ==
    /\ gpc = "ready"
    /\ creds = {"gemini", "claude", "openai"} /\ initFailed = {"claude"}
    /\ available_providers = <<"gemini", "openai">>
    /\ current_provider = "openai"

\* a step taken while the generator is constructed: the registry stays,
\* and a step that ends a call leaves nothing of the call behind
CallStepFrame ==
    gpc \in {"ready", "call", "done"} =>
        /\ UNCHANGED <<available_providers, clients, current_provider>>
        /\ (gpc' = "ready") => NoRequest'

\* C18: every step of a generate_* call, whether the call succeeds, falls
\* back to another provider or ends in the empty result, leaves
\* available_providers, clients and current_provider unchanged, and when the
\* call is over nothing of it is left: the next call meets the same generator.
C18_CallsLeaveRegistryUnchanged == [][CallStepFrame]_vars

C18_Witness ==
    /\ gpc = "done" /\ current_provider = "gemini"
    /\ callLog = <<"gemini", "claude">> /\ errLog = <<"gemini">>
    /\ available_providers = <<"gemini", "claude">>
    /\ result = EmptyFor(op)

(***************************************************************************)
(* Properties of the primary PDF strategy (checked under SpecExtract)      *)
(***************************************************************************)
\* t holds b as a contiguous piece
Occurs(t, b) == \E k \in 0..(Len(t) - Len(b)) : SubSeq(t, k + 1, k + Len(b)) = b

\* where b starts in t
PosOf(t, b) ==
    CHOOSE k \in 0..(Len(t) - Len(b)) :
        /\ SubSeq(t, k + 1, k + Len(b)) = b
        /\ \A m \in 0..(k - 1) : SubSeq(t, m + 1, m + Len(b)) # b

\* the pages the primary loop went through
Processed(pdf) ==
    IF pdf.fitz # "ok" THEN {}
    ELSE { n \in 1..Len(pdf.pages) : \A m \in 1..n : ~pdf.pages[m].fitzRaises }

\* the block of image i of page n whose OCR finds text
ImageBlock(i, n) == ImageMarker(i, n) \o <<OcrWord[i], "\n", "\n">>

\* the same file with every unreadable image replaced by an image without text
Healed(pdf) ==
    [pdf EXCEPT !.pages =
        [n \in 1..Len(pdf.pages) |->
            [pdf.pages[n] EXCEPT !.images =
                [i \in 1..Len(pdf.pages[n].images) |->
                    IF pdf.pages[n].images[i] \in {"raise", "cmyk"} THEN "blank"
                    ELSE pdf.pages[n].images[i]]]]]

PrimaryRanWithOcr == IsPdf /\ primary # "none" /\ use_ocr

\* C19: an image that fails to decode or to OCR, or has four or more colour
\* planes, takes nothing away from the other images of its page: each of
\* their blocks is in the accumulated text, unaltered and in image order,
\* and the text (native text included) is what it would be had the image
\* simply held no text.
C19_ImageFailureIsolated ==
    PrimaryRanWithOcr =>
        /\ \A n \in Processed(file.pdf) :
             LET images == file.pdf.pages[n].images
             IN  /\ \A i \in 1..Len(images) :
                        images[i] = "text" => Occurs(text_content, ImageBlock(i, n))
                 /\ \A i \in 1..Len(images), j \in 1..Len(images) :
                        (i < j /\ images[i] = "text" /\ images[j] = "text")
                            => PosOf(text_content, ImageBlock(i, n))
                                   < PosOf(text_content, ImageBlock(j, n))
        /\ text_content = PrimaryStrategy(Healed(file.pdf), use_ocr).text
        /\ (ExtractDone /\ source = "primary")
               => eout.val = _clean_text(PrimaryStrategy(Healed(file.pdf), use_ocr).text)

C19_Witness ==
    /\ PrimaryRanWithOcr /\ ExtractDone /\ source = "primary"
    /\ \E n \in 1..Len(file.pdf.pages) :
         /\ file.pdf.pages[n].images = <<"raise", "text">>
         /\ ~IsBlank(file.pdf.pages[n].native)
         /\ Contains(eout.val, OcrWord[2])
         /\ Contains(eout.val, PageWord[n])

\* the native-text section of page n: nothing for a blank page
NativeSectionOf(pdf, n) ==
    IF \A k \in 1..Len(pdf.pages[n].native) : pdf.pages[n].native[k] \in WS
    THEN <<>>
    ELSE PageMarker(n) \o pdf.pages[n].native \o <<"\n">>

\* the image-text section of page n: nothing when OCR is off or no image
\* of the page yields text
ImageSectionOf(pdf, n, ocr) ==
    LET images == pdf.pages[n].images
    IN  IF ~ocr \/ \A i \in 1..Len(images) : images[i] # "text"
        THEN <<>>
        ELSE ImagesMarker(n)
             \o Flatten([i \in 1..Len(images) |->
                           IF images[i] = "text" THEN ImageBlock(i, n) ELSE <<>>])
             \o <<"\n">>

\* C20: the text the primary strategy accumulates is, for the pages it went
\* through in increasing order, each page's native-text section followed by
\* its image-text section, each section behind its own marker; a page with
\* blank native text adds no page marker, a page without OCR text adds no
\* image marker, a page with neither adds nothing.
C20_AccumulatedTextInPageOrder ==
    (IsPdf /\ primary # "none") =>
        text_content =
            Flatten([n \in 1..Cardinality(Processed(file.pdf)) |->
                       NativeSectionOf(file.pdf, n)
                           \o ImageSectionOf(file.pdf, n, use_ocr)])

C20_Witness ==
    /\ IsPdf /\ primary = "text" /\ use_ocr
    /\ Len(file.pdf.pages) = 2
    /\ ~IsBlank(file.pdf.pages[1].native) /\ file.pdf.pages[1].images = <<"text">>
    /\ IsBlank(file.pdf.pages[2].native) /\ file.pdf.pages[2].images = <<"text">>
    /\ Contains(text_content, "Images") /\ Contains(text_content, PageWord[1])

(***************************************************************************)
(* Properties of _clean_text (checked under SpecClean)                     *)
(***************************************************************************)
Cleaned == epc = "cleaned"

\* C21: _clean_text is idempotent: cleaning a cleaned text changes nothing.
C21_CleanIdempotent == Cleaned => _clean_text(eout.val) = eout.val

C21_Witness ==
    /\ Cleaned
    /\ text_content = <<"\t", "a", "\n", " ", "b">>
    /\ eout.val = <<"a", " ", "b">>

RECURSIVE TokensOf(_, _)

\* the maximal runs of non-whitespace characters of s, in order; cur is the
\* run being read
TokensOf(s, cur) ==
    IF s = <<>> THEN (IF cur = <<>> THEN <<>> ELSE <<cur>>)
    ELSE IF Head(s) \in {" ", "\n", "\t"}
         THEN (IF cur = <<>> THEN <<>> ELSE <<cur>>) \o TokensOf(Tail(s), <<>>)
         ELSE TokensOf(Tail(s), Append(cur, Head(s)))

RECURSIVE SpaceJoined(_)

SpaceJoined(ts) ==
    IF ts = <<>> THEN <<>>
    ELSE IF Len(ts) = 1 THEN ts[1]
    ELSE ts[1] \o <<" ">> \o SpaceJoined(Tail(ts))

\* C22: _clean_text returns the maximal non-whitespace tokens of its input,
\* in order, joined by exactly one space: no whitespace at either end, no
\* two adjacent whitespace characters, no newline, empty exactly when the
\* input is blank, no other character added, dropped or moved.
C22_CleanIsSpaceJoinedTokens ==
    Cleaned =>
        LET x == text_content
            y == eout.val
            white == {" ", "\n", "\t"}
        IN  /\ ~eout.exc
            /\ y = SpaceJoined(TokensOf(x, <<>>))
            /\ y # <<>> => (y[1] \notin white /\ y[Len(y)] \notin white)
            /\ \A k \in 1..(Len(y) - 1) : ~(y[k] \in white /\ y[k + 1] \in white)
            /\ \A k \in 1..Len(y) : y[k] \notin {"\n", "\t"}
            /\ (y = <<>>) <=> (\A k \in 1..Len(x) : x[k] \in white)
            /\ SelectSeq(y, LAMBDA c : c \notin white) = SelectSeq(x, LAMBDA c : c \notin white)

C22_Witness ==
    /\ Cleaned
    /\ text_content = <<" ", "a", "b", "\n", "a">>
    /\ eout.val = <<"a", "b", " ", "a">>

(***************************************************************************)
(* Properties of extract_text on DOC / DOCX and other files                *)
(* (checked under SpecExtract)                                             *)
(***************************************************************************)
\* no paragraph and no table cell of the document holds a visible character
NoReadableText(d) ==
    /\ \A i \in 1..Len(d.paragraphs) : IsBlank(d.paragraphs[i])
    /\ \A t \in 1..Len(d.tables) : \A r \in 1..Len(d.tables[t]) :
           \A c \in 1..Len(d.tables[t][r]) : IsBlank(d.tables[t][r][c])

LegacyError == eout.exc /\ Contains(eout.err, "Legacy .doc files are not fully supported")

DocumentReadError == eout.exc /\ Contains(eout.err, "Error reading document")

\* C23: a .doc file the DOCX reader cannot parse, or in which it finds no
\* readable text, fails with the legacy-format error; extract_text never
\* returns an empty string for a .doc file; for a .docx file a reader
\* failure is a document-read error and not the legacy-format error.
C23_LegacyDocFails ==
    ExtractDone =>
        /\ (Lower(file.ext) = ".doc"
               /\ (file.docx.mode = "raises" \/ NoReadableText(file.docx)))
              => LegacyError
        /\ (Lower(file.ext) = ".doc" /\ ~eout.exc) => eout.val # <<>>
        /\ (file.ext = ".docx" /\ file.docx.mode = "raises")
              => (DocumentReadError /\ ~LegacyError)

C23_Witness ==
    /\ ExtractDone /\ file.ext = ".DOC" /\ file.docx.mode = "ok"
    /\ file.docx.paragraphs = << <<" ">> >>
    /\ LegacyError

UnsupportedError == eout.exc /\ Contains(eout.err, "Unsupported file format")

\* C24: extract_text dispatches on the lower-cased extension: '.pdf' goes
\* to the PDF strategies, '.doc' and '.docx' (in any case) to the DOCX
\* reader, and any other extension fails with the unsupported-format error,
\* no strategy having run and no text being returned.
C24_DispatchOnExtension ==
    ExtractDone =>
        /\ file.ext \in {".pdf", ".PDF"}
              => /\ primary # "none" \/ secRuns > 0
                 /\ source # "docx" /\ ~UnsupportedError
        /\ file.ext \in {".doc", ".DOC", ".docx", ".DOCX"}
              => /\ primary = "none" /\ secRuns = 0
                 /\ source = "docx" \/ LegacyError \/ DocumentReadError
                 /\ ~UnsupportedError
        /\ file.ext \notin {".pdf", ".PDF", ".doc", ".DOC", ".docx", ".DOCX"}
              => /\ UnsupportedError
                 /\ primary = "none" /\ secRuns = 0 /\ source = "none"
                 /\ eout.val = <<>>

C24_Witness == ExtractDone /\ file.ext = ".txt" /\ UnsupportedError /\ secRuns = 0

(***************************************************************************)
(* Properties of the upload page (checked under SpecUpload)                *)
(***************************************************************************)
\* C25: once the temporary copy of the upload exists, a processing call
\* cannot end, on any path (success, blank text, an exception while the
\* upload is written, during extraction or during generation), with the
\* temporary file still on disk.
C25_TempFileReleased == upc = "finished" => ~tmp_exists

(***************************************************************************)
(* Resources and flags of one extract_text call (checked under SpecExtract)*)
(***************************************************************************)
\* C26: when extract_text returns or fails, the document opened by the
\* primary strategy has been closed, on the success path, on the blank-text
\* fallback path and on the path where a page raises and the secondary
\* strategy takes over.
C26_NoHandleLeftOpen == ExtractDone => ~fitzOpen

\* the caller of the running extract_text has OCR switched off
CallerDisabledOcr ==
    \/ upc = "extracting" /\ ~checkbox_use_ocr
    \/ mpc = "processing" /\ ~self_use_ocr

\* C27: when the caller has disabled OCR (the upload page's checkbox, or
\* StudyAIStandalone constructed with use_ocr=False), extract_text scans no
\* image: the processor's flag is off and the result holds no image section.
C27_OcrFlagHonoured ==
    (ExtractDone /\ CallerDisabledOcr)
        => /\ ~use_ocr
           /\ ~eout.exc => \A i \in 1..Len(eout.val) : eout.val[i] \notin OcrTokens

\* C29: within one extract_text call on a PDF the secondary strategy runs at
\* most once, whether the primary strategy is unavailable, raises or yields
\* blank text, and whether or not the secondary strategy itself fails.
C29_SecondaryAtMostOnce == IsPdf => secRuns <= 1

(***************************************************************************)
(* Properties of the provider call (checked under SpecGen)                 *)
(***************************************************************************)
\* C28: every call of _generate_with_provider ends by returning a string,
\* for every set of available providers and every pattern of failures: no
\* exception leaves it.
C28_CallReturnsString == RequestDone => ~raised

(***************************************************************************)
(* Properties of the command-line program (checked under SpecMain)         *)
(***************************************************************************)
\* C30: when document processing and the three generation calls complete
\* and neither --output-json nor --output-pdf is given, main writes both
\* default output files and ends successfully, with or without --quiet and
\* whatever was generated.
C30_DefaultOutputsWritten ==
    (mpc = "exited" /\ ~output_json /\ ~output_pdf)
        => /\ exit_code = 0
           /\ {"default_json", "default_pdf"} \subseteq written

====
